---- MODULE Spec2Model ----
(***************************************************************************)
(* cf-ddns: a dynamic-DNS client (cf-ddns-client), the edge worker that    *)
(* reports the caller's address (cf-ddns-worker) and the envelope model    *)
(* they share (cf-ddns).                                                   *)
(*                                                                         *)
(* Texts (header values, response bodies, JSON strings holding addresses)  *)
(* are sequences of one-character strings, so that parsing and formatting  *)
(* are computed character by character.  Names that the program only       *)
(* concatenates and passes on (zone names, ids) are TLA+ strings.          *)
(* Option<T> is a sequence of length at most one: None is <<>>, Some(v)    *)
(* is <<v>>.                                                               *)
(***************************************************************************)
EXTENDS Integers, Sequences, FiniteSets, TLC

VARIABLES
    pc,          \* position of main(): which stage runs next
    rawArgs,     \* the command line as given
    args,        \* Args after Args::parse()
    ipReply,     \* what the IP endpoint answered to get_ip in this run
    ip,          \* main's local `ip` (Option)
    zone_id,     \* main's local `zone_id` (Option)
    record_id,   \* main's local `record_id` (Option)
    calls,       \* the network operations issued so far, in order
    exit,        \* how the process ended (Option)
    reply,       \* provider: the reply handed to get_zone_id / get_record_id
    outcome,     \* provider: what the operation returned (Option)
    header,      \* worker: the CF-Connecting-IP header of the request (Option of text)
    responses,   \* worker: what respond() returned (Option)
    httpReply,   \* worker: the HTTP response built from it (Option)
    decoded,     \* worker: what the client's get_ip makes of that response (Option)
    peer,        \* worker: the connection the proxy saw and how it wrote the header
    given,       \* shared model: the value handed to a conversion into Response
    envelope     \* shared model: the Response the conversion built (Option)

vars == <<pc, rawArgs, args, ipReply, ip, zone_id, record_id, calls, exit,
          reply, outcome, header, responses, httpReply, decoded, peer,
          given, envelope>>

None == <<>>
Some(v) == <<v>>

Ok(v) == [tag |-> "Ok", val |-> v]
Err(e) == [tag |-> "Err", err |-> e]

(***************************************************************************)
(* std::net address parsing and formatting, as used by the worker          *)
(* (ip.parse::<IpAddr>(), ip.to_canonical(), ip.to_string()) and by the    *)
(* decoders of Ipv4Addr / Ipv6Addr fields.                                 *)
(***************************************************************************)
V4(octets) == [family |-> "V4", addr |-> octets]
V6(segments) == [family |-> "V6", addr |-> segments]

\* char::to_digit, as a number; a character that is a digit in no radix
\* counts as 36, which is no digit in radix 10 or 16
CharVal(c) ==
    CASE c = "0" -> 0 [] c = "1" -> 1 [] c = "2" -> 2 [] c = "3" -> 3
      [] c = "4" -> 4 [] c = "5" -> 5 [] c = "6" -> 6 [] c = "7" -> 7
      [] c = "8" -> 8 [] c = "9" -> 9
      [] c \in {"a", "A"} -> 10 [] c \in {"b", "B"} -> 11
      [] c \in {"c", "C"} -> 12 [] c \in {"d", "D"} -> 13
      [] c \in {"e", "E"} -> 14 [] c \in {"f", "F"} -> 15
      [] OTHER -> 36

DigitChars == <<"0", "1", "2", "3", "4", "5", "6", "7", "8", "9",
                "a", "b", "c", "d", "e", "f">>

ParseFail == [ok |-> FALSE, val |-> <<>>, pos |-> 0]
Parsed(v, p) == [ok |-> TRUE, val |-> v, pos |-> p]

\* how many digits of the radix start at position pos of the text s
RECURSIVE DigitRun(_, _, _)
DigitRun(s, pos, radix) ==
    IF pos <= Len(s) /\ CharVal(s[pos]) < radix
    THEN 1 + DigitRun(s, pos + 1, radix)
    ELSE 0

\* the value of the n digits starting at pos
RECURSIVE NumVal(_, _, _, _)
NumVal(s, pos, n, radix) ==
    IF n = 0 THEN 0
    ELSE NumVal(s, pos, n - 1, radix) * radix + CharVal(s[pos + n - 1])

\* Parser::read_number: all the digits at pos; fails on none, on more than
\* max_digits, on a forbidden leading zero, and on overflow of the target type
checked_number(v, max_value, next) ==
    IF v > max_value THEN ParseFail ELSE Parsed(<<v>>, next)

number_of_digits(s, pos, n, radix, max_digits, allow_zero_prefix, max_value) ==
    IF n = 0 \/ n > max_digits THEN ParseFail
    ELSE IF ~allow_zero_prefix /\ s[pos] = "0" /\ n > 1 THEN ParseFail
    ELSE checked_number(NumVal(s, pos, n, radix), max_value, pos + n)

read_number(s, pos, radix, max_digits, allow_zero_prefix, max_value) ==
    number_of_digits(s, pos, DigitRun(s, pos, radix), radix, max_digits,
                     allow_zero_prefix, max_value)

\* Parser::read_given_char
read_given_char(s, pos, c) == pos <= Len(s) /\ s[pos] = c

\* Parser::read_separator: the separator (except before the first group), then a number
read_separator(s, pos, sep, index, radix, max_digits, allow_zero_prefix, max_value) ==
    IF index > 0 /\ ~read_given_char(s, pos, sep) THEN ParseFail
    ELSE read_number(s, IF index = 0 THEN pos ELSE pos + 1, radix, max_digits,
                     allow_zero_prefix, max_value)

\* Parser::read_ipv4_addr: four decimal groups of at most three digits, no
\* leading zeros, each at most 255, separated by '.'
RECURSIVE read_ipv4_groups(_, _, _, _)
ipv4_group_read(s, i, acc, g) ==
    IF g.ok THEN read_ipv4_groups(s, g.pos, i + 1, acc \o g.val) ELSE ParseFail

read_ipv4_groups(s, pos, i, acc) ==
    IF i = 4 THEN Parsed(acc, pos)
    ELSE ipv4_group_read(s, i, acc, read_separator(s, pos, ".", i, 10, 3, FALSE, 255))

read_ipv4_addr(s, pos) == read_ipv4_groups(s, pos, 0, <<>>)

\* read_groups of Parser::read_ipv6_addr: up to `limit` groups of at most four
\* hex digits separated by ':'; a dotted IPv4 address may stand for the last
\* two groups (it is tried first, when at least two groups are left).
\* Returns the groups read, whether an IPv4 tail ended them, and the position
\* reached.
GroupsRead(groups, ipv4, pos) == [groups |-> groups, ipv4 |-> ipv4, pos |-> pos]

RECURSIVE read_groups(_, _, _, _, _)
groups_step(s, pos, limit, i, acc, v4, g) ==
    IF v4.ok
    THEN GroupsRead(acc \o <<v4.val[1] * 256 + v4.val[2], v4.val[3] * 256 + v4.val[4]>>,
                    TRUE, v4.pos)
    ELSE IF g.ok THEN read_groups(s, g.pos, limit, i + 1, acc \o g.val)
    ELSE GroupsRead(acc, FALSE, pos)

read_groups(s, pos, limit, i, acc) ==
    IF i >= limit THEN GroupsRead(acc, FALSE, pos)
    ELSE groups_step(s, pos, limit, i, acc,
                     IF i < limit - 1 /\ (i = 0 \/ read_given_char(s, pos, ":"))
                     THEN read_ipv4_addr(s, IF i = 0 THEN pos ELSE pos + 1)
                     ELSE ParseFail,
                     read_separator(s, pos, ":", i, 16, 4, TRUE, 65535))

Zeros(n) == [k \in 1..n |-> 0]

\* Parser::read_ipv6_addr: eight groups, or fewer groups around one "::"
\* that stands for at least one zero group
ipv6_with_tail(head, tail) ==
    Parsed(head.groups \o Zeros(8 - Len(head.groups) - Len(tail.groups)) \o tail.groups,
           tail.pos)

ipv6_after_head(s, head) ==
    IF Len(head.groups) = 8 THEN Parsed(head.groups, head.pos)
    ELSE IF head.ipv4 THEN ParseFail
    ELSE IF ~(read_given_char(s, head.pos, ":") /\ read_given_char(s, head.pos + 1, ":"))
         THEN ParseFail
    ELSE ipv6_with_tail(head, read_groups(s, head.pos + 2, 8 - (Len(head.groups) + 1),
                                          0, <<>>))

read_ipv6_addr(s, pos) == ipv6_after_head(s, read_groups(s, pos, 8, 0, <<>>))

\* Parser::read_ip_addr: an IPv4 address, or else an IPv6 address
ip_or_else(r4, r6) ==
    IF r4.ok THEN Parsed(V4(r4.val), r4.pos)
    ELSE IF r6.ok THEN Parsed(V6(r6.val), r6.pos)
    ELSE ParseFail

read_ip_addr(s, pos) == ip_or_else(read_ipv4_addr(s, pos), read_ipv6_addr(s, pos))

\* Parser::parse_with: the whole text must have been consumed
parse_with(s, r) ==
    IF r.ok /\ r.pos = Len(s) + 1 THEN Ok(r.val) ELSE Err("AddrParseError")

\* <Ipv4Addr as FromStr>::from_str
parse_Ipv4Addr(s) == parse_with(s, read_ipv4_addr(s, 1))

\* <Ipv6Addr as FromStr>::from_str
parse_Ipv6Addr(s) == parse_with(s, read_ipv6_addr(s, 1))

\* <IpAddr as FromStr>::from_str
parse_IpAddr(s) == parse_with(s, read_ip_addr(s, 1))

\* Ipv6Addr::to_ipv4_mapped: ::ffff:a.b.c.d -> Some(a.b.c.d)
to_ipv4_mapped(seg) ==
    IF SubSeq(seg, 1, 5) = Zeros(5) /\ seg[6] = 65535
    THEN Some(<<seg[7] \div 256, seg[7] % 256, seg[8] \div 256, seg[8] % 256>>)
    ELSE None

\* IpAddr::to_canonical
canonical_of(a, mapped) == IF mapped # None THEN V4(mapped[1]) ELSE a

to_canonical(a) ==
    IF a.family = "V6" THEN canonical_of(a, to_ipv4_mapped(a.addr)) ELSE a

\* decimal text of a number (Display for u8)
RECURSIVE DecText(_)
DecText(n) ==
    IF n < 10 THEN <<DigitChars[n + 1]>>
    ELSE DecText(n \div 10) \o <<DigitChars[(n % 10) + 1]>>

\* lower-case hex text of a number without leading zeros ({:x})
RECURSIVE HexText(_)
HexText(n) ==
    IF n < 16 THEN <<DigitChars[n + 1]>>
    ELSE HexText(n \div 16) \o <<DigitChars[(n % 16) + 1]>>

\* Ipv4Addr::to_string: dotted decimal
Ipv4_to_string(o) ==
    DecText(o[1]) \o <<".">> \o DecText(o[2]) \o <<".">> \o DecText(o[3])
        \o <<".">> \o DecText(o[4])

\* fmt_subslice of Display for Ipv6Addr: the groups in hex, ':' between them
RECURSIVE JoinHex(_)
JoinHex(groups) ==
    IF groups = <<>> THEN <<>>
    ELSE IF Len(groups) = 1 THEN HexText(groups[1])
    ELSE HexText(groups[1]) \o <<":">> \o JoinHex(Tail(groups))

\* the length of the run of zero segments that starts at index i
RECURSIVE ZeroRunAt(_, _)
ZeroRunAt(seg, i) ==
    IF i <= Len(seg) /\ seg[i] = 0 THEN 1 + ZeroRunAt(seg, i + 1) ELSE 0

\* Ipv6Addr::to_string: ::ffff:a.b.c.d for a mapped address, and otherwise
\* the groups in hex with the first longest run of two or more zeros as "::"
LongestZeroRun(seg) ==
    CHOOSE n \in 0..8 : /\ \E i \in 1..8 : ZeroRunAt(seg, i) = n
                        /\ \A i \in 1..8 : ZeroRunAt(seg, i) <= n

compressed(seg, longest, start) ==
    IF longest > 1
    THEN JoinHex(SubSeq(seg, 1, start - 1)) \o <<":", ":">>
            \o JoinHex(SubSeq(seg, start + longest, 8))
    ELSE JoinHex(seg)

with_longest(seg, longest) ==
    compressed(seg, longest,
               CHOOSE i \in 1..8 : /\ ZeroRunAt(seg, i) = longest
                                   /\ \A j \in 1..(i - 1) : ZeroRunAt(seg, j) < longest)

mapped_or_groups(seg, mapped) ==
    IF mapped # None
    THEN <<":", ":", "f", "f", "f", "f", ":">> \o Ipv4_to_string(mapped[1])
    ELSE with_longest(seg, LongestZeroRun(seg))

Ipv6_to_string(seg) == mapped_or_groups(seg, to_ipv4_mapped(seg))

(***************************************************************************)
(* cf-ddns-worker: respond() and the HTTP response built from its result.  *)
(***************************************************************************)
HeaderNotFound == [kind |-> "HeaderNotFound", ip |-> <<>>]
InvalidIp(text) == [kind |-> "InvalidIp", ip |-> text]
V6NotSupported == [kind |-> "V6NotSupported", ip |-> <<>>]

ResponsesOk(octets) == [tag |-> "Ok", ip |-> octets]
BadRequest(e) == [tag |-> "BadRequest", err |-> e]

\* respond: the header, parsed, made canonical, then split on the family
respond_canonical(canonical) ==
    IF canonical.family = "V4"
    THEN ResponsesOk(canonical.addr)
    ELSE BadRequest(V6NotSupported)

\* respond_parsed without the call of to_canonical
respond_parsed_not_canonical(text, parsed) ==
    IF parsed.tag = "Err" THEN BadRequest(InvalidIp(text))
    ELSE respond_canonical(parsed.val)

respond_parsed(text, parsed) ==
    IF parsed.tag = "Err" THEN BadRequest(InvalidIp(text))
    ELSE respond_canonical(to_canonical(parsed.val))

\* respond if the header were parsed as an Ipv4Addr only
respond_v4_only(h) ==
    IF h = None THEN BadRequest(HeaderNotFound)
    ELSE IF parse_Ipv4Addr(h[1]).tag = "Err" THEN BadRequest(InvalidIp(h[1]))
    ELSE ResponsesOk(parse_Ipv4Addr(h[1]).val)

respond(h) ==
    IF h = None THEN BadRequest(HeaderNotFound)
    ELSE respond_parsed(h[1], parse_IpAddr(h[1]))

\* a response body: plain text, or a JSON document
TextBody(text) == [kind |-> "text", text |-> text]
JsonBody(doc) == [kind |-> "json", doc |-> doc]

\* worker::Response::ok(body): status 200 and the text as the body
Response_ok(text) == [status |-> 200, body |-> TextBody(text)]

\* worker::Response::error(msg, status): that status and the message as the body
Response_error(msg, status) == [status |-> status, body |-> TextBody(msg)]

MsgHeaderNotFound ==
    <<"C", "F", "-", "C", "o", "n", "n", "e", "c", "t", "i", "n", "g", "-", "I", "P",
      " ", "h", "e", "a", "d", "e", "r", " ", "n", "o", "t", " ", "f", "o", "u", "n",
      "d", ".">>
MsgInvalidIp ==
    <<"I", "n", "v", "a", "l", "i", "d", " ", "I", "P", " ", "a", "d", "d", "r", "e",
      "s", "s", ":", " ">>
MsgV6Worker ==
    <<"I", "P", "v", "6", " ", "i", "s", " ", "n", "o", "t", " ", "s", "u", "p", "p",
      "o", "r", "t", "e", "d", ".">>

\* impl From<CfConnectingIpError> for Response
ResponseFromError(e) ==
    CASE e.kind = "HeaderNotFound" -> Response_error(MsgHeaderNotFound, 400)
      [] e.kind = "InvalidIp" -> Response_error(MsgInvalidIp \o e.ip, 400)
      [] e.kind = "V6NotSupported" -> Response_error(MsgV6Worker, 400)

\* impl From<Responses> for Result<Response>
ResponseFromResponses(resp) ==
    IF resp.tag = "Ok" THEN Response_ok(Ipv4_to_string(resp.ip))
    ELSE ResponseFromError(resp.err)

(***************************************************************************)
(* cf-ddns-client::worker: get_ip and the decoding of cf_ddns::Response.   *)
(***************************************************************************)
\* a JSON document for cf_ddns::Response: each of the three keys may be
\* missing; result may be null or a string
JsonResult(kind, text) == [kind |-> kind, text |-> text]
JsonInfo(code, message) == [code |-> code, message |-> message]
UnknownCode == [kind |-> "Unknown", ip |-> <<>>]

DecodeFail == [ok |-> FALSE]
Decoded(v) == [ok |-> TRUE, val |-> v]

\* Deserialize for Option<Ipv4Addr>: a missing or null value is None, a
\* string must be the text of an IPv4 address
option_of_parse(p) == IF p.tag = "Ok" THEN Decoded(Some(p.val)) ELSE DecodeFail

decode_OptionIpv4(r) ==
    IF r.kind = "string" THEN option_of_parse(parse_Ipv4Addr(r.text)) ELSE Decoded(None)

\* serde's Deserialize for cf_ddns::Response (Response::json::<Response>()):
\* success: bool and errors: Vec<ResponseInfo<Error>> are required, every
\* code must be a variant of Error, result: Option<Ipv4Addr> may be absent
response_with(doc, result) ==
    IF result.ok
    THEN Decoded([success |-> doc.success[1], errors |-> doc.errors[1],
                  result |-> result.val])
    ELSE DecodeFail

decode_Response(body) ==
    IF body.kind # "json" THEN DecodeFail
    ELSE IF body.doc.success = None \/ body.doc.errors = None THEN DecodeFail
    ELSE IF \E i \in 1..Len(body.doc.errors[1]) :
                body.doc.errors[1][i].code.kind = "Unknown" THEN DecodeFail
    ELSE response_with(body.doc, decode_OptionIpv4(body.doc.result))

RequestFailed == [kind |-> "RequestFailed", errors |-> <<>>]
ResponseNotJson == [kind |-> "ResponseNotJson", errors |-> <<>>]
UnsuccessfulResponse(response) == [kind |-> "UnsuccessfulResponse", response |-> response]

\* what an HTTP exchange gives the caller: a transport error, or a response
TransportError == [transport |-> "err"]
Delivered(status, body) == [transport |-> "ok", status |-> status, body |-> body]

\* get_ip
ip_of_response(d) ==
    IF ~d.ok THEN Err(ResponseNotJson)
    ELSE IF d.val.result # None THEN Ok(V4(d.val.result[1]))
    ELSE Err(UnsuccessfulResponse(d.val))

get_ip(r) ==
    IF r.transport = "err" THEN Err(RequestFailed)
    ELSE ip_of_response(decode_Response(r.body))

(***************************************************************************)
(* cf-ddns-client::cloudflare: the three provider operations, each a       *)
(* function of what the HTTP exchange gave back.                           *)
(***************************************************************************)
\* a JSON document for ListResponse<T> / Response<T>: each key may be
\* missing; result may be null, a list (of item documents) or one object
JsonList(items) == [kind |-> "list", items |-> items]
JsonObject(item) == [kind |-> "object", items |-> <<item>>]
JsonNull == [kind |-> "null", items |-> <<>>]
JsonMissing == [kind |-> "missing", items |-> <<>>]

\* an entry of errors: code is a JSON integer or not
CfInfoDoc(isInt, code, message) == [isInt |-> isInt, code |-> code, message |-> message]
CfResponseInfo(code, message) == [code |-> code, message |-> message]

\* Deserialize for ResponseInfo<i32>
decode_CfResponseInfo(d) ==
    IF d.isInt THEN Decoded(CfResponseInfo(d.code, d.message)) ELSE DecodeFail

\* Deserialize for Id: the key id is required, other keys are ignored
ZoneDoc(id) == [id |-> id]
decode_Id(d) == IF d.id = None THEN DecodeFail ELSE Decoded([id |-> d.id[1]])

\* Deserialize for Record and RecordContent: id, zone_name and name are
\* required; type "A" needs an IPv4 content, "AAAA" an IPv6 content, any
\* other type is RecordContent::Other
RecordDoc(id, type, content) ==
    [id |-> id, zone_name |-> Some("example.com"), name |-> Some("www.example.com"),
     type |-> type, content |-> content]
RecordContent(type, addr) == [type |-> type, addr |-> addr]

content_of_parse(type, p) ==
    IF p.tag = "Ok" THEN Decoded(RecordContent(type, p.val)) ELSE DecodeFail

decode_RecordContent(d) ==
    IF d.type = "A" THEN content_of_parse("A", parse_Ipv4Addr(d.content))
    ELSE IF d.type = "AAAA" THEN content_of_parse("AAAA", parse_Ipv6Addr(d.content))
    ELSE Decoded(RecordContent("Other", <<>>))

record_with(d, content) ==
    IF content.ok
    THEN Decoded([id |-> d.id[1], zone_name |-> d.zone_name[1], name |-> d.name[1],
                  content |-> content.val])
    ELSE DecodeFail

decode_Record(d) ==
    IF d.id = None \/ d.zone_name = None \/ d.name = None THEN DecodeFail
    ELSE record_with(d, decode_RecordContent(d))

\* the shared part of both envelopes: success: bool and
\* errors: Vec<ResponseInfo<i32>> are required and must decode
EnvelopeHeadOk(doc) ==
    /\ doc.success # None
    /\ doc.errors # None
    /\ \A i \in 1..Len(doc.errors[1]) : decode_CfResponseInfo(doc.errors[1][i]).ok

DecodedErrors(doc) ==
    [i \in 1..Len(doc.errors[1]) |-> decode_CfResponseInfo(doc.errors[1][i]).val]

\* Response::json::<ListResponse<T>>(): result: Vec<T> is required, must be
\* a list, and every element must decode
list_with(doc, items) ==
    IF \E i \in 1..Len(items) : ~items[i].ok THEN DecodeFail
    ELSE Decoded([success |-> doc.success[1],
                  errors |-> DecodedErrors(doc),
                  result |-> [i \in 1..Len(items) |-> items[i].val]])

\* the element type T of ListResponse<T>: Id in get_zone_id, Record in
\* get_record_id
decode_item(T, d) == IF T = "Id" THEN decode_Id(d) ELSE decode_Record(d)

decode_ListResponse(body, T) ==
    IF body.kind # "json" THEN DecodeFail
    ELSE IF ~EnvelopeHeadOk(body.doc) \/ body.doc.result.kind # "list" THEN DecodeFail
    ELSE list_with(body.doc, [i \in 1..Len(body.doc.result.items) |->
                                 decode_item(T, body.doc.result.items[i])])

\* Response::json::<Response<Record>>(): result: Record is required and must decode
object_with(doc, item) ==
    IF item.ok
    THEN Decoded([success |-> doc.success[1], errors |-> DecodedErrors(doc),
                  result |-> item.val])
    ELSE DecodeFail

decode_RecordResponse(body) ==
    IF body.kind # "json" THEN DecodeFail
    ELSE IF ~EnvelopeHeadOk(body.doc) \/ body.doc.result.kind # "object" THEN DecodeFail
    ELSE object_with(body.doc, decode_Record(body.doc.result.items[1]))

\* CloudflareError::Error(errors) and CloudflareError::EmptyResult
CfError(errors) == [kind |-> "Error", errors |-> errors]
EmptyResult == [kind |-> "EmptyResult", errors |-> <<>>]

\* .last() in the place of .first()
first_is_last(list) == IF list = <<>> THEN None ELSE Some(list[Len(list)])

\* .first(): the first element of the list
first(list) == IF list = <<>> THEN None ELSE Some(list[1])

\* .first().ok_or(CloudflareError::EmptyResult)?.id.clone()
first_id(entry) == IF entry = None THEN Err(EmptyResult) ELSE Ok(entry[1].id)

\* the part of get_zone_id and get_record_id after the decoding, which the
\* two share word for word
id_of_list(d) ==
    IF ~d.ok THEN Err(ResponseNotJson)
    ELSE IF ~d.val.success THEN Err(CfError(d.val.errors))
    ELSE first_id(first(d.val.result))

\* Cloudflare::get_zone_id
get_zone_id(r) ==
    IF r.transport = "err" THEN Err(RequestFailed)
    ELSE id_of_list(decode_ListResponse(r.body, "Id"))

\* Cloudflare::get_record_id
get_record_id(r) ==
    IF r.transport = "err" THEN Err(RequestFailed)
    ELSE id_of_list(decode_ListResponse(r.body, "Record"))

\* impl From<IpAddr> for UpdateRecord
UpdateRecord_from(a) ==
    IF a.family = "V4"
    THEN [content |-> Ipv4_to_string(a.addr), type |-> "A"]
    ELSE [content |-> Ipv6_to_string(a.addr), type |-> "AAAA"]

\* Cloudflare::update_record
record_of_response(d) ==
    IF ~d.ok THEN Err(ResponseNotJson)
    ELSE IF ~d.val.success THEN Err(CfError(d.val.errors))
    ELSE Ok(d.val.result)

update_record(r) ==
    IF r.transport = "err" THEN Err(RequestFailed)
    ELSE record_of_response(decode_RecordResponse(r.body))

PipelineIdle ==
    /\ pc = "idle" /\ rawArgs = None /\ args = None /\ ipReply = None
    /\ ip = None /\ zone_id = None /\ record_id = None /\ calls = <<>>
    /\ exit = None
ProviderIdle == reply = None /\ outcome = None
WorkerIdle ==
    /\ header = None /\ responses = None /\ httpReply = None /\ decoded = None
    /\ peer = None

EnvelopeIdle == given = None /\ envelope = None

pipelineVars == <<pc, rawArgs, args, ipReply, ip, zone_id, record_id, calls, exit>>
providerVars == <<reply, outcome>>
workerVars == <<header, responses, httpReply, decoded, peer>>
envelopeVars == <<given, envelope>>

(***************************************************************************)
(* What the network may answer.                                            *)
(***************************************************************************)
\* the provider operations on their own see error lists and result lists up
\* to these lengths; the runs of main see shorter ones
MaxErrors == 2
MaxResults == 2
MaxRunErrors == 1
MaxRunResults == 1

SeqsUpTo(S, n) == UNION {[1..k -> S] : k \in 0..n}
Options(S) == {None} \cup {Some(v) : v \in S}

Ip1 == <<"2", "0", "3", ".", "0", ".", "1", "1", "3", ".", "7">>
Ip2 == <<"1", "9", "8", ".", "5", "1", ".", "1", "0", "0", ".", "2">>
NotAnIpv4 == <<"1", ".", "2", ".", "3">>
MsgV6Shared ==
    <<"I", "P", "v", "6", " ", "a", "d", "d", "r", "e", "s", "s", "e", "s", " ", "a",
      "r", "e", " ", "n", "o", "t", " ", "s", "u", "p", "p", "o", "r", "t", "e", "d",
      ".">>

\* entries of errors in a reply of the IP endpoint
IpInfoDocs ==
    { JsonInfo(V6NotSupported, MsgV6Shared),
      JsonInfo(UnknownCode, <<>>) }

IpResultDocs ==
    { JsonResult("missing", <<>>), JsonResult("null", <<>>),
      JsonResult("string", Ip1), JsonResult("string", Ip2),
      JsonResult("string", NotAnIpv4) }

IpDocs ==
    [success : Options(BOOLEAN), errors : Options(SeqsUpTo(IpInfoDocs, MaxRunErrors)),
     result : IpResultDocs]

NotJsonText == <<"<", "h", "t", "m", "l", ">">>

IpReplies ==
    {TransportError, Delivered(502, TextBody(NotJsonText)),
     Delivered(200, TextBody(Ip1))}
    \cup {Delivered(IF d.success = Some(TRUE) THEN 200 ELSE 400, JsonBody(d)) : d \in IpDocs}

\* entries of errors in a reply of the provider
CfInfoDocs ==
    { CfInfoDoc(TRUE, 1003, "Invalid or missing zone id."),
      CfInfoDoc(TRUE, 7003, "Could not route to the requested path."),
      CfInfoDoc(FALSE, 0, "code is not an integer") }

ZoneDocs == {ZoneDoc(None), ZoneDoc(Some("z1")), ZoneDoc(Some("z2"))}

Content1 == <<"1", "0", ".", "0", ".", "0", ".", "0">>
ContentText == <<"e", "x", "a", "m", "p", "l", "e">>

RecordDocs ==
    { RecordDoc(Some("r1"), "A", Content1),
      RecordDoc(Some("r2"), "A", Content1),
      RecordDoc(Some("r2"), "TXT", ContentText),
      RecordDoc(Some("r1"), "AAAA", <<":", ":", "1">>),
      RecordDoc(Some("r1"), "A", ContentText),
      RecordDoc(None, "A", Content1) }

ListDocs(items, maxErrors, maxResults) ==
    [success : Options(BOOLEAN), errors : Options(SeqsUpTo(CfInfoDocs, maxErrors)),
     result : {JsonMissing, JsonNull}
                \cup {JsonList(l) : l \in SeqsUpTo(items, maxResults)}]

ObjectDocs(items, maxErrors) ==
    [success : Options(BOOLEAN), errors : Options(SeqsUpTo(CfInfoDocs, maxErrors)),
     result : {JsonMissing, JsonNull} \cup {JsonObject(i) : i \in items}]

JsonReplies(docs) ==
    {TransportError, Delivered(502, TextBody(NotJsonText))}
    \cup {Delivered(200, JsonBody(d)) : d \in docs}

ZoneReplies == JsonReplies(ListDocs(ZoneDocs, MaxErrors, MaxResults))
RecordReplies == JsonReplies(ListDocs(RecordDocs, MaxErrors, MaxResults))

RunZoneReplies == JsonReplies(ListDocs(ZoneDocs, MaxRunErrors, MaxRunResults))
RunRecordReplies == JsonReplies(ListDocs(RecordDocs, MaxRunErrors, MaxRunResults))
RunUpdateReplies == JsonReplies(ObjectDocs(RecordDocs, MaxRunErrors))

(***************************************************************************)
(* The provider operations on their own: one reply, one operation.         *)
(***************************************************************************)
Request(op, r) == [op |-> op, reply |-> r]

InitProvider ==
    /\ PipelineIdle /\ WorkerIdle /\ EnvelopeIdle
    /\ outcome = None
    /\ \/ \E r \in ZoneReplies : reply = Some(Request("get_zone_id", r))
       \/ \E r \in RecordReplies : reply = Some(Request("get_record_id", r))

CallGetZoneId ==
    /\ reply # None /\ outcome = None /\ reply[1].op = "get_zone_id"
    /\ outcome' = Some(get_zone_id(reply[1].reply))
    /\ UNCHANGED <<reply, pipelineVars, workerVars, envelopeVars>>

CallGetRecordId ==
    /\ reply # None /\ outcome = None /\ reply[1].op = "get_record_id"
    /\ outcome' = Some(get_record_id(reply[1].reply))
    /\ UNCHANGED <<reply, pipelineVars, workerVars, envelopeVars>>

NextProvider == CallGetZoneId \/ CallGetRecordId
SpecProvider == InitProvider /\ [][NextProvider]_vars

(***************************************************************************)
(* The requests the worker is run on.  The reverse proxy writes the        *)
(* address the requester connected from into the header: an IPv4 address   *)
(* in dotted decimal, an IPv6 address in one of its textual forms, nothing *)
(* at all, or (when the header is forged or damaged) a text that is not an *)
(* address.                                                                *)
(***************************************************************************)
OctetSamples == <<0, 1, 127, 255, 10, 100, 7, 200>>
NumOctets == 4
Octets == {OctetSamples[i] : i \in 1..(IF NumOctets < 8 THEN NumOctets ELSE 8)}
Octets4 == {<<a, b, c, d>> : a \in Octets, b \in Octets, c \in Octets, d \in Octets}

\* the first six groups of an IPv6 address as written: the groups before a
\* "::" (if any) and the groups after it; `mapped` says whether they are the
\* IPv4-mapped prefix 0:0:0:0:0:ffff
V6Prefixes ==
    { [head |-> <<>>, gap |-> TRUE, tail |-> <<65535>>, mapped |-> TRUE],
      [head |-> <<0, 0, 0, 0, 0, 65535>>, gap |-> FALSE, tail |-> <<>>, mapped |-> TRUE],
      [head |-> <<>>, gap |-> TRUE, tail |-> <<>>, mapped |-> FALSE],
      [head |-> <<8193, 3512>>, gap |-> TRUE, tail |-> <<>>, mapped |-> FALSE],
      [head |-> <<>>, gap |-> TRUE, tail |-> <<65534>>, mapped |-> FALSE],
      [head |-> <<>>, gap |-> TRUE, tail |-> <<65535, 0>>, mapped |-> FALSE],
      [head |-> <<1>>, gap |-> TRUE, tail |-> <<65535>>, mapped |-> FALSE],
      [head |-> <<100, 65435>>, gap |-> TRUE, tail |-> <<>>, mapped |-> FALSE] }

\* the text of the IPv6 address with prefix p and low 32 bits o, the last two
\* groups written in hex ("hex") or as a dotted IPv4 address ("dotted")
V6Text(p, o, style) ==
    LET last == IF style = "hex"
                THEN JoinHex(<<o[1] * 256 + o[2], o[3] * 256 + o[4]>>)
                ELSE Ipv4_to_string(o)
    IN  IF p.gap
        THEN JoinHex(p.head) \o <<":", ":">> \o JoinHex(p.tail)
                \o (IF p.tail = <<>> THEN <<>> ELSE <<":">>) \o last
        ELSE JoinHex(p.head \o p.tail) \o <<":">> \o last

NotAnAddress ==
    { <<"i", "n", "v", "a", "l", "i", "d">>,
      <<>>,
      <<"1", ".", "2", ".", "3">>,
      <<"2", "5", "6", ".", "0", ".", "0", ".", "1">>,
      <<"0", "1", ".", "2", ".", "3", ".", "4">>,
      <<"1", ".", "2", ".", "3", ".", "4", ".", "5">>,
      <<"1", ".", "2", ".", "3", ".", "4", ":", "8", "0">>,
      <<":", ":", ":">>,
      <<":", ":", "f", "f", "f", "f", ":", "7", "f", "0", "0", ":", "1", ":">>,
      <<"1", "2", "3", "4", "5", ":", ":">>,
      <<":", ":", "g">> }

Peer(kind, mapped, octets, text) ==
    [kind |-> kind, mapped |-> mapped, octets |-> octets, text |-> text]

Peers ==
    {Peer("absent", FALSE, <<>>, <<>>)}
    \cup {Peer("v4", FALSE, o, Ipv4_to_string(o)) : o \in Octets4}
    \cup {Peer("v6", p.mapped, o, V6Text(p, o, style)) :
              p \in V6Prefixes, o \in Octets4, style \in {"hex", "dotted"}}
    \cup {Peer("v6", FALSE, <<0, 0, 0, 1>>, <<":", ":", "1">>),
          Peer("v6", FALSE, <<0, 0, 0, 0>>, <<":", ":">>)}
    \cup {Peer("garbage", FALSE, <<>>, t) : t \in NotAnAddress}

InitWorker ==
    /\ PipelineIdle /\ ProviderIdle /\ EnvelopeIdle
    /\ \E p \in Peers :
          /\ peer = Some(p)
          /\ header = IF p.kind = "absent" THEN None ELSE Some(p.text)
    /\ responses = None /\ httpReply = None /\ decoded = None

\* fetch: respond(req.headers()).into()
Fetch ==
    /\ peer # None /\ responses = None
    /\ \E resp \in {respond(header)} :
          /\ responses' = Some(resp)
          /\ httpReply' = Some(ResponseFromResponses(resp))
    /\ UNCHANGED <<header, decoded, peer, pipelineVars, providerVars, envelopeVars>>

\* the client's get_ip on the response the worker sent
ClientGetIp ==
    /\ httpReply # None /\ decoded = None
    /\ decoded' = Some(get_ip(Delivered(httpReply[1].status, httpReply[1].body)))
    /\ UNCHANGED <<header, responses, httpReply, peer, pipelineVars, providerVars, envelopeVars>>

NextWorker == Fetch \/ ClientGetIp
SpecWorker == InitWorker /\ [][NextWorker]_vars

(***************************************************************************)
(* cf-ddns (the shared model): the conversions into Response, each on its  *)
(* own: one value, one conversion.                                         *)
(***************************************************************************)
\* impl fmt::Display for Error
Error_to_string(err) ==
    CASE err.kind = "HeaderNotFound" -> MsgHeaderNotFound
      [] err.kind = "InvalidIp" -> MsgInvalidIp \o err.ip
      [] err.kind = "V6NotSupported" -> MsgV6Shared

\* impl From<Error> for ResponseInfo<Error>
ResponseInfo_from(err) == [code |-> err, message |-> Error_to_string(err)]

\* impl From<Ipv4Addr> for Response
Response_from_Ipv4Addr(a) == [success |-> TRUE, errors |-> <<>>, result |-> Some(a)]

\* From<Error> for Response with errors: vec![] in the place of vec![err.into()]
Response_from_Error_no_entry(err) ==
    [success |-> FALSE, errors |-> <<>>, result |-> None]

\* impl From<Error> for Response
Response_from_Error(err) ==
    [success |-> FALSE, errors |-> <<ResponseInfo_from(err)>>, result |-> None]

\* impl From<Result<Ipv4Addr, Error>> for Response
Response_from_Result(r) ==
    IF r.tag = "Ok" THEN Response_from_Ipv4Addr(r.val) ELSE Response_from_Error(r.err)

\* the values of Error, and the values the three conversions are given
Errors == {HeaderNotFound, V6NotSupported} \cup {InvalidIp(t) : t \in NotAnAddress}
Given(via, value) == [via |-> via, value |-> value]
Givens ==
    {Given("Ipv4Addr", Ok(a)) : a \in Octets4}
    \cup {Given("Error", Err(e)) : e \in Errors}
    \cup {Given("Result", Ok(a)) : a \in Octets4}
    \cup {Given("Result", Err(e)) : e \in Errors}

InitEnvelope ==
    /\ PipelineIdle /\ ProviderIdle /\ WorkerIdle
    /\ given \in {Some(g) : g \in Givens}
    /\ envelope = None

\* Response::from(ip)
FromIpv4Addr ==
    /\ given # None /\ envelope = None /\ given[1].via = "Ipv4Addr"
    /\ envelope' = Some(Response_from_Ipv4Addr(given[1].value.val))
    /\ UNCHANGED <<given, pipelineVars, providerVars, workerVars>>

\* Response::from(err)
FromError ==
    /\ given # None /\ envelope = None /\ given[1].via = "Error"
    /\ envelope' = Some(Response_from_Error(given[1].value.err))
    /\ UNCHANGED <<given, pipelineVars, providerVars, workerVars>>

\* Response::from(result)
FromResult ==
    /\ given # None /\ envelope = None /\ given[1].via = "Result"
    /\ envelope' = Some(Response_from_Result(given[1].value))
    /\ UNCHANGED <<given, pipelineVars, providerVars, workerVars>>

NextEnvelope == FromIpv4Addr \/ FromError \/ FromResult
SpecEnvelope == InitEnvelope /\ [][NextEnvelope]_vars

(***************************************************************************)
(* cf-ddns-client: main().                                                 *)
(***************************************************************************)
ZoneNames == {"example.com", "example.org"}
ZoneIds == {"z9"}
RecordNames == {"www"}
RecordIds == {"r9"}
Tokens == {"s3cr3t", "s3\ncr3t"}
TokenFiles == {"/etc/cf-token"}
DefaultUrl == "https://cf-ddns.adam-sasine.workers.dev"

\* the command lines: every option given or not
RawArgs ==
    [url : {DefaultUrl},
     zone_name : Options(ZoneNames), zone_id : Options(ZoneIds),
     token : Options(Tokens), token_file : Options(TokenFiles),
     record_name : Options(RecordNames), record_id : Options(RecordIds)]

\* #[group(required = true, multiple = false)]: exactly one member is given
GroupOk(a, b) == (a # None) # (b # None)

\* Args::parse() if RecordArgs were no required group
ArgsValid_record_optional(a) ==
    /\ a.zone_name # None
    /\ GroupOk(a.token, a.token_file)

\* Args::parse(): --zone-name is required, and so is exactly one of each of
\* the groups TokenArgs and RecordArgs
ArgsValid(a) ==
    /\ a.zone_name # None
    /\ GroupOk(a.token, a.token_file)
    /\ GroupOk(a.record_name, a.record_id)

\* HeaderValue::from_str: a header value holds no control character
HeaderValueOk(t) == t # "s3\ncr3t"

\* a network operation as issued: which one, with which arguments, whether
\* it succeeded and the id it returned (for the two lookups)
Call(op, zone, name, record, body, res) ==
    [op |-> op, zone_id |-> zone, name |-> name, record_id |-> record,
     body |-> body, ok |-> res.tag = "Ok",
     id |-> IF res.tag = "Ok" /\ op \in {"get_zone_id", "get_record_id"}
            THEN Some(res.val) ELSE None]

Exit(code, stage) == [code |-> code, stage |-> stage]

\* the positions in the log of the calls of one operation
Ops(op) == {i \in 1..Len(calls) : calls[i].op = op}

\* format!("{}{}", ...): the dot forgotten
full_record_name_no_dot(record_name, zone_name) == record_name \o zone_name

\* format!("{}.{}", record_name, args.zone.zone_name)
full_record_name(record_name, zone_name) == record_name \o "." \o zone_name

Init ==
    /\ ProviderIdle /\ WorkerIdle /\ EnvelopeIdle
    /\ pc = "parse"
    /\ rawArgs \in {Some(a) : a \in RawArgs}
    /\ args = None /\ ipReply = None /\ ip = None /\ zone_id = None
    /\ record_id = None /\ calls = <<>> /\ exit = None

\* let args = Args::parse(): an invalid command line ends the process with a
\* usage error
Parse ==
    /\ pc = "parse"
    /\ IF ArgsValid(rawArgs[1])
       THEN /\ args' = rawArgs
            /\ pc' = "get_ip"
            /\ exit' = exit
       ELSE /\ args' = args
            /\ pc' = "exited"
            /\ exit' = Some(Exit("USAGE", "parse"))
    /\ UNCHANGED <<rawArgs, ipReply, ip, zone_id, record_id, calls,
                   providerVars, workerVars, envelopeVars>>

\* let ip = match get_ip(&args.url) { Ok(ip) => ip, Err(err) => return FAILURE }
DiscoverIp ==
    /\ pc = "get_ip"
    /\ \E r \in IpReplies :
          \E res \in {get_ip(r)} :
              /\ ipReply' = Some(r)
              /\ calls' = Append(calls, Call("get_ip", None, Some(args[1].url), None,
                                             None, res))
              /\ IF res.tag = "Ok"
                 THEN ip' = Some(res.val) /\ pc' = "client" /\ exit' = exit
                 ELSE ip' = ip /\ pc' = "exited"
                      /\ exit' = Some(Exit("FAILURE", "get_ip"))
    /\ UNCHANGED <<rawArgs, args, zone_id, record_id, providerVars, workerVars, envelopeVars>>

\* let client = Cloudflare::try_new(&args.token.token()).unwrap(): the token
\* is the option or the content of the token file; an unreadable file, a
\* token that is no header value and a client that cannot be built all panic
NewClient ==
    /\ pc = "client"
    /\ \E file \in {Err("io")} \cup {Ok(t) : t \in Tokens}, built \in BOOLEAN :
          \E token \in {IF args[1].token # None THEN Ok(args[1].token[1]) ELSE file} :
              IF token.tag = "Ok" /\ HeaderValueOk(token.val) /\ built
              THEN pc' = "zone" /\ exit' = exit
              ELSE pc' = "exited" /\ exit' = Some(Exit("PANIC", "client"))
    /\ UNCHANGED <<rawArgs, args, ipReply, ip, zone_id, record_id, calls,
                   providerVars, workerVars, envelopeVars>>

\* ResolveZone if the supplied zone id were not used: the zone is looked up anyway
ResolveZone_always_looks_up ==
    /\ pc = "zone"
    /\ \E r \in RunZoneReplies :
          \E res \in {get_zone_id(r)} :
              /\ calls' = Append(calls, Call("get_zone_id", None, args[1].zone_name,
                                             None, None, res))
              /\ IF res.tag = "Ok"
                 THEN zone_id' = Some(res.val) /\ pc' = "record" /\ exit' = exit
                 ELSE zone_id' = zone_id /\ pc' = "exited"
                      /\ exit' = Some(Exit("FAILURE", "zone"))
    /\ UNCHANGED <<rawArgs, args, ipReply, ip, record_id, providerVars, workerVars, envelopeVars>>

\* ResolveZone if a failed lookup did not return: the run goes on without a zone id
ResolveZone_goes_on ==
    /\ pc = "zone"
    /\ IF args[1].zone_id # None
       THEN /\ zone_id' = args[1].zone_id
            /\ pc' = "record"
            /\ UNCHANGED <<calls, exit>>
       ELSE \E r \in RunZoneReplies :
              \E res \in {get_zone_id(r)} :
                  /\ calls' = Append(calls, Call("get_zone_id", None, args[1].zone_name,
                                                 None, None, res))
                  /\ zone_id' = IF res.tag = "Ok" THEN Some(res.val) ELSE Some("")
                  /\ pc' = "record"
                  /\ exit' = exit
    /\ UNCHANGED <<rawArgs, args, ipReply, ip, record_id, providerVars, workerVars, envelopeVars>>

\* let zone_id = match args.zone.zone_id { Some(zone_id) => zone_id,
\*     None => match client.get_zone_id(&args.zone.zone_name) { ... } }
ResolveZone ==
    /\ pc = "zone"
    /\ IF args[1].zone_id # None
       THEN /\ zone_id' = args[1].zone_id
            /\ pc' = "record"
            /\ UNCHANGED <<calls, exit>>
       ELSE \E r \in RunZoneReplies :
              \E res \in {get_zone_id(r)} :
                  /\ calls' = Append(calls, Call("get_zone_id", None, args[1].zone_name,
                                                 None, None, res))
                  /\ IF res.tag = "Ok"
                     THEN zone_id' = Some(res.val) /\ pc' = "record" /\ exit' = exit
                     ELSE zone_id' = zone_id /\ pc' = "exited"
                          /\ exit' = Some(Exit("FAILURE", "zone"))
    /\ UNCHANGED <<rawArgs, args, ipReply, ip, record_id, providerVars, workerVars, envelopeVars>>

\* let record_id = match (args.record.record_name, args.record.record_id) {
\*     (Some(record_name), _) => client.get_record_id(&zone_id, &full_record_name),
\*     (_, Some(record_id)) => record_id, _ => unreachable!() }
ResolveRecord ==
    /\ pc = "record"
    /\ IF args[1].record_name # None
       THEN \E r \in RunRecordReplies :
              \E res \in {get_record_id(r)} :
                  /\ calls' = Append(calls, Call("get_record_id", zone_id,
                              Some(full_record_name(args[1].record_name[1],
                                                    args[1].zone_name[1])),
                              None, None, res))
                  /\ IF res.tag = "Ok"
                     THEN record_id' = Some(res.val) /\ pc' = "update" /\ exit' = exit
                     ELSE record_id' = record_id /\ pc' = "exited"
                          /\ exit' = Some(Exit("FAILURE", "record"))
       ELSE IF args[1].record_id # None
       THEN /\ record_id' = args[1].record_id
            /\ pc' = "update"
            /\ UNCHANGED <<calls, exit>>
       ELSE /\ pc' = "exited"
            /\ exit' = Some(Exit("PANIC", "record"))
            /\ UNCHANGED <<record_id, calls>>
    /\ UNCHANGED <<rawArgs, args, ipReply, ip, zone_id, providerVars, workerVars, envelopeVars>>

\* Update if a first failed update were tried again instead of ending the run
Update_retries ==
    /\ pc = "update"
    /\ \E r \in RunUpdateReplies :
          \E res \in {update_record(r)} :
              /\ calls' = Append(calls, Call("update_record", zone_id, None, record_id,
                                             Some(UpdateRecord_from(ip[1])), res))
              /\ IF res.tag = "Ok"
                 THEN pc' = "exited" /\ exit' = Some(Exit("SUCCESS", "update"))
                 ELSE IF Ops("update_record") = {}
                 THEN pc' = "update" /\ exit' = exit
                 ELSE pc' = "exited" /\ exit' = Some(Exit("FAILURE", "update"))
    /\ UNCHANGED <<rawArgs, args, ipReply, ip, zone_id, record_id,
                   providerVars, workerVars, envelopeVars>>

\* let record = match client.update_record(&zone_id, &record_id, ip) { ... };
\* println!("{} => {ip}", record.name); ExitCode::SUCCESS
Update ==
    /\ pc = "update"
    /\ \E r \in RunUpdateReplies :
          \E res \in {update_record(r)} :
              /\ calls' = Append(calls, Call("update_record", zone_id, None, record_id,
                                             Some(UpdateRecord_from(ip[1])), res))
              /\ pc' = "exited"
              /\ exit' = IF res.tag = "Ok"
                         THEN Some(Exit("SUCCESS", "update"))
                         ELSE Some(Exit("FAILURE", "update"))
    /\ UNCHANGED <<rawArgs, args, ipReply, ip, zone_id, record_id,
                   providerVars, workerVars, envelopeVars>>

Next == Parse \/ DiscoverIp \/ NewClient \/ ResolveZone \/ ResolveRecord \/ Update
Spec == Init /\ [][Next]_vars

(***************************************************************************)
(* Properties of main().                                                   *)
(***************************************************************************)
StageOf(op) ==
    CASE op = "get_ip" -> "get_ip" [] op = "get_zone_id" -> "zone"
      [] op = "get_record_id" -> "record" [] op = "update_record" -> "update"

\* C1: a network operation that failed is the last one the run issued, and the
\* run has ended in failure at that stage; in particular a run whose zone
\* lookup failed has issued neither get_record_id nor update_record.
C1_FailureEndsRun ==
    /\ \A i \in 1..Len(calls) :
          ~calls[i].ok =>
              /\ i = Len(calls)
              /\ pc = "exited"
              /\ exit = Some(Exit("FAILURE", StageOf(calls[i].op)))
    /\ exit = Some(Exit("FAILURE", "zone")) =>
          Ops("get_record_id") = {} /\ Ops("update_record") = {}
    /\ exit # None => pc = "exited"

\* a run whose zone lookup was issued and failed
C1_Witness ==
    /\ exit = Some(Exit("FAILURE", "zone"))
    /\ Len(calls) = 2
    /\ calls[2].op = "get_zone_id" /\ ~calls[2].ok

\* C2: whenever the IP endpoint's reply decodes as an envelope with
\* success = false, whatever its other fields hold, get_ip fails: the run has
\* ended in failure at the IP stage and get_ip is the only operation issued.
C2_UnsuccessfulEnvelopeFails ==
    (/\ ipReply # None
     /\ ipReply[1].transport = "ok"
     /\ decode_Response(ipReply[1].body).ok
     /\ ~decode_Response(ipReply[1].body).val.success)
    => exit = Some(Exit("FAILURE", "get_ip")) /\ Len(calls) = 1

ZoneStageDone ==
    \/ pc \in {"record", "update"}
    \/ pc = "exited" /\ exit[1].stage \in {"zone", "record", "update"}

RecordStageDone ==
    \/ pc = "update"
    \/ pc = "exited" /\ exit[1].stage \in {"record", "update"}

\* C8: a supplied zone id means get_zone_id is never called and every later
\* call carries the supplied id; a supplied record id means get_record_id is
\* never called and update_record carries the supplied id; an id that is not
\* supplied is looked up exactly once by the time its stage is over, and not
\* before.
C8_SuppliedIdsSkipLookups ==
    args # None =>
        /\ args[1].zone_id # None =>
              /\ Ops("get_zone_id") = {}
              /\ zone_id # None => zone_id = args[1].zone_id
              /\ \A i \in Ops("get_record_id") \cup Ops("update_record") :
                    calls[i].zone_id = args[1].zone_id
        /\ args[1].record_id # None =>
              /\ Ops("get_record_id") = {}
              /\ record_id # None => record_id = args[1].record_id
              /\ \A i \in Ops("update_record") : calls[i].record_id = args[1].record_id
        /\ args[1].zone_id = None =>
              Cardinality(Ops("get_zone_id")) = IF ZoneStageDone THEN 1 ELSE 0
        /\ args[1].record_id = None =>
              Cardinality(Ops("get_record_id")) = IF RecordStageDone THEN 1 ELSE 0

\* a finished run that skipped the zone lookup and made the record lookup
C8_Witness ==
    /\ exit = Some(Exit("SUCCESS", "update"))
    /\ args[1].zone_id # None /\ args[1].record_id = None
    /\ Len(calls) = 3
    /\ calls[3].zone_id = args[1].zone_id

\* C9: every record lookup asks for record_name "." zone_name ("www" under
\* "example.com" is looked up as "www.example.com") within the zone id of the
\* zone stage: the supplied one, or else the one get_zone_id returned.
C9_LookupNameIsQualified ==
    \A i \in Ops("get_record_id") :
        /\ calls[i].name = Some(args[1].record_name[1] \o "." \o args[1].zone_name[1])
        /\ (args[1].record_name = Some("www") /\ args[1].zone_name = Some("example.com"))
              => calls[i].name = Some("www.example.com")
        /\ calls[i].zone_id # None /\ calls[i].zone_id = zone_id
        /\ args[1].zone_id # None => calls[i].zone_id = args[1].zone_id
        /\ args[1].zone_id = None =>
              \E j \in 1..(i - 1) : /\ calls[j].op = "get_zone_id"
                                    /\ calls[j].id = calls[i].zone_id

\* a lookup of www.example.com within a zone id that get_zone_id returned
C9_Witness ==
    \E i \in Ops("get_record_id") :
        /\ calls[i].name = Some("www.example.com")
        /\ calls[i].zone_id = Some("z1")
        /\ args[1].zone_id = None

ExactlyOneRecordSelector(a) ==
    \/ a.record_name # None /\ a.record_id = None
    \/ a.record_name = None /\ a.record_id # None

\* C10: a command line with neither or both of record id and record name is
\* rejected before any network operation; every run that got past the parsing
\* has exactly one of them, and the `neither` branch of the record stage is
\* never taken.
C10_ExactlyOneRecordSelector ==
    /\ (calls # <<>> \/ pc \in {"get_ip", "client", "zone", "record", "update"})
          => ExactlyOneRecordSelector(rawArgs[1]) /\ args = rawArgs
    /\ ~ExactlyOneRecordSelector(rawArgs[1])
          => /\ calls = <<>>
             /\ pc = "parse" \/ exit = Some(Exit("USAGE", "parse"))
    /\ exit # Some(Exit("PANIC", "record"))

\* an otherwise valid command line with neither of them, rejected
C10_Witness ==
    /\ exit = Some(Exit("USAGE", "parse"))
    /\ rawArgs[1].record_name = None /\ rawArgs[1].record_id = None
    /\ rawArgs[1].zone_name # None
    /\ rawArgs[1].token # None /\ rawArgs[1].token_file = None
    /\ calls = <<>>

\* the place of an operation in the order of main
Rank(op) ==
    CASE op = "get_ip" -> 1 [] op = "get_zone_id" -> 2
      [] op = "get_record_id" -> 3 [] op = "update_record" -> 4

\* what the log of a run may look like when update_record is on it
UpdateIsFounded(i) ==
    /\ calls[1].op = "get_ip" /\ calls[1].ok
    /\ \A j \in 1..(i - 1) : calls[j].ok
    /\ ip # None /\ get_ip(ipReply[1]) = Ok(ip[1])
    /\ calls[i].body = Some(UpdateRecord_from(ip[1]))
    /\ ip[1].family = "V4"
    /\ calls[i].body[1].content = Ipv4_to_string(ip[1].addr)
    /\ zone_id # None /\ calls[i].zone_id = zone_id
    /\ \/ args[1].zone_id = zone_id
       \/ \E j \in 1..(i - 1) : calls[j].op = "get_zone_id" /\ calls[j].id = zone_id
    /\ record_id # None /\ calls[i].record_id = record_id
    /\ \/ args[1].record_id = record_id
       \/ \E j \in 1..(i - 1) : calls[j].op = "get_record_id" /\ calls[j].id = record_id

CallsInOrder ==
    /\ \A i, j \in 1..Len(calls) : i < j => Rank(calls[i].op) < Rank(calls[j].op)
    /\ \A op \in {"get_ip", "get_zone_id", "get_record_id", "update_record"} :
          Cardinality(Ops(op)) <= 1
    /\ calls # <<>> => calls[1].op = "get_ip"
    /\ \A i \in Ops("update_record") : UpdateIsFounded(i)

OneCallAtATime ==
    \/ calls' = calls
    \/ /\ Len(calls') = Len(calls) + 1
       /\ SubSeq(calls', 1, Len(calls)) = calls

\* C12: at every moment of a run the operations issued so far are in the
\* order get_ip, get_zone_id, get_record_id, update_record with none of them
\* issued twice, and every step issues at most one operation and leaves the
\* earlier ones as they were; update_record is on the log only after a get_ip
\* that succeeded and with a zone id and a record id that were supplied or
\* looked up, and its body is the address that get_ip returned in this run.
C12_OneAtATimeInOrder == [](CallsInOrder) /\ [][OneCallAtATime]_vars

\* a run that made all four calls and updated the record to 203.0.113.7
C12_Witness ==
    /\ exit = Some(Exit("SUCCESS", "update"))
    /\ Len(calls) = 4
    /\ calls[2].op = "get_zone_id" /\ calls[3].op = "get_record_id"
    /\ calls[4].op = "update_record"
    /\ calls[4].body = Some([content |-> Ip1, type |-> "A"])

(***************************************************************************)
(* Properties of the provider operations.                                  *)
(***************************************************************************)
DecodesAsList(r) ==
    IF r.op = "get_zone_id"
    THEN decode_ListResponse(r.reply.body, "Id").ok
    ELSE decode_ListResponse(r.reply.body, "Record").ok

GivenErrors(doc) ==
    [i \in 1..Len(doc.errors[1]) |->
        CfResponseInfo(doc.errors[1][i].code, doc.errors[1][i].message)]

\* C6: get_zone_id and get_record_id return RequestFailed on a transport
\* error; else ResponseNotJson if the body does not decode as the list
\* envelope; else Error with the given errors in order if success is false;
\* else EmptyResult if the list is empty; else Ok.  And a reply that declares
\* success = false is always reported as Error with its errors, never as
\* another kind of error or as Ok.
C6_OutcomeByPrecedence ==
    outcome # None =>
        /\ IF reply[1].reply.transport = "err" THEN outcome[1] = Err(RequestFailed)
           ELSE IF ~DecodesAsList(reply[1]) THEN outcome[1] = Err(ResponseNotJson)
           ELSE IF reply[1].reply.body.doc.success = Some(FALSE)
                THEN outcome[1] = Err(CfError(GivenErrors(reply[1].reply.body.doc)))
           ELSE IF reply[1].reply.body.doc.result.items = <<>>
                THEN outcome[1] = Err(EmptyResult)
           ELSE outcome[1].tag = "Ok"
        /\ (/\ reply[1].reply.transport = "ok"
            /\ reply[1].reply.body.kind = "json"
            /\ reply[1].reply.body.doc.success = Some(FALSE))
           => outcome[1].tag = "Err" /\ outcome[1].err.kind = "Error"

\* C7: a successful list reply with one or more entries yields the id of its
\* first entry, however many entries follow.
C7_FirstMatchWins ==
    (/\ outcome # None
     /\ reply[1].reply.transport = "ok"
     /\ DecodesAsList(reply[1])
     /\ reply[1].reply.body.doc.success = Some(TRUE)
     /\ reply[1].reply.body.doc.result.items # <<>>)
    => outcome[1] = Ok(reply[1].reply.body.doc.result.items[1].id[1])

\* two entries with different ids, the first one's id returned
C7_Witness ==
    /\ outcome # None
    /\ reply[1].reply.transport = "ok"
    /\ reply[1].reply.body.kind = "json"
    /\ reply[1].reply.body.doc.result.kind = "list"
    /\ Len(reply[1].reply.body.doc.result.items) = 2
    /\ reply[1].reply.body.doc.result.items[1].id = Some("z2")
    /\ reply[1].reply.body.doc.result.items[2].id = Some("z1")
    /\ outcome[1] = Ok("z2")

(***************************************************************************)
(* Properties of the worker.                                               *)
(***************************************************************************)
\* C3: the reply of the worker is the envelope get_ip decodes: an accepted
\* address a is decoded as Ok(a), and a rejection as an envelope with
\* success = false that carries the rejection's code, never as an undecodable
\* body.
C3_ReplyDecodesAsEnvelope ==
    decoded # None =>
        IF responses[1].tag = "Ok"
        THEN decoded[1] = Ok(V4(responses[1].ip))
        ELSE /\ decoded[1].tag = "Err"
             /\ decoded[1].err.kind = "UnsuccessfulResponse"
             /\ ~decoded[1].err.response.success
             /\ Len(decoded[1].err.response.errors) = 1
             /\ decoded[1].err.response.errors[1].code = responses[1].err

C11_EnvelopeInvariant ==
    envelope # None =>
        /\ envelope[1].success = (envelope[1].result # None)
        /\ envelope[1].success = (envelope[1].errors = <<>>)
        /\ given[1].value.tag = "Ok" =>
              /\ envelope[1].success
              /\ envelope[1].result = Some(given[1].value.val)
              /\ envelope[1].errors = <<>>
        /\ given[1].value.tag = "Err" =>
              /\ ~envelope[1].success
              /\ envelope[1].result = None
              /\ Len(envelope[1].errors) = 1
              /\ envelope[1].errors[1].code = given[1].value.err
              /\ envelope[1].errors[1].message = Error_to_string(given[1].value.err)
              /\ envelope[1].errors[1].message # <<>>
              /\ given[1].value.err.kind = "InvalidIp" =>
                    envelope[1].errors[1].message
                        = MsgInvalidIp \o given[1].value.err.ip

\* Err(InvalidIp("invalid")) converted from a Result: a failure with one entry
C11_Witness ==
    /\ given = Some(Given("Result", Err(InvalidIp(<<"i", "n", "v", "a", "l", "i", "d">>))))
    /\ envelope # None
    /\ ~envelope[1].success
    /\ Len(envelope[1].errors) = 1
    /\ envelope[1].result = None
====
